---------------------------- MODULE Spec2Model ----------------------------
(***************************************************************************)
(* Model of mmdeploy/codebase/mmdet/models/dense_heads/yolo_head.py:       *)
(* the two rewrites of YOLOV3Head.predict_by_feat.                         *)
(*                                                                         *)
(*   yolov3_head__predict_by_feat        generic decode-and-filter path    *)
(*   yolov3_head__predict_by_feat__ncnn  fused single-operator path        *)
(*                                                                         *)
(* Tensors are nested sequences (1-based); every index the code computes   *)
(* is kept 0-based, as in the source, and shifted by one only where a      *)
(* sequence is read.  Probabilities and thresholds are fixed-point         *)
(* integers.  torch.sigmoid, bbox_coder.decode and grid_anchors are        *)
(* external: a prediction map carries, per candidate, the values those     *)
(* calls produce, and the calls themselves are logged in `calls`.          *)
(***************************************************************************)
EXTENDS Integers, Sequences, FiniteSets, TLC

VARIABLES
    backend,                 \* "default" | "ncnn": static dispatch of the rewriter
    pc,                      \* position inside the call
    pred_maps,               \* argument: one map per level, [level][batch][anchor]
    num_classes,             \* self.num_classes
    num_levels,              \* self.num_levels
    featmap_strides,         \* self.featmap_strides
    base_sizes,              \* self.prior_generator.base_sizes
    cfg_given,               \* FALSE when the cfg argument is None
    cfg_arg,                 \* the cfg argument (a dict) when given
    test_cfg,                \* self.test_cfg
    post_params,             \* get_post_processing_params(deploy_cfg)
    with_nms,                \* argument
    pre_topk,                \* local of the generic path
    batch_mlvl_bboxes,       \* local: [batch][anchor] -> box
    batch_mlvl_scores,       \* local: [batch][anchor][class] -> score
    batch_mlvl_conf_scores,  \* local: [batch][anchor] -> objectness
    calls,                   \* collaborators invoked so far, in order
    nms_args,                \* << >> or <<record of what multiclass_nms received>>
    op_args,                 \* << >> or <<record of what Yolov3DetectionOutputOp.apply received>>
    ret                      \* << >> or the returned value

vars == <<backend, pc, pred_maps, num_classes, num_levels, featmap_strides,
          base_sizes, cfg_given, cfg_arg, test_cfg, post_params, with_nms,
          pre_topk, batch_mlvl_bboxes, batch_mlvl_scores,
          batch_mlvl_conf_scores, calls, nms_args, op_args, ret>>

inputs == <<backend, pred_maps, num_classes, num_levels, featmap_strides,
            base_sizes, cfg_given, cfg_arg, test_cfg, post_params, with_nms>>

-----------------------------------------------------------------------------
(* Bounds of the model. *)
MaxBatch == 2
MaxLevels == 2
MaxClasses == 2
MaxTopk == 2
MaxBoxes == 2

-----------------------------------------------------------------------------
(* Dictionaries (ConfigDict) are functions from key strings. *)

EmptyDict == [k \in {} |-> 0]

Restrict(d, keys) == [k \in keys \cap DOMAIN d |-> d[k]]

\* dict.get(key, default)
Get(d, key, default) == IF key \in DOMAIN d THEN d[key] ELSE default

Max(a, b) == IF a >= b THEN a ELSE b

ZeroBox == <<0, 0, 0, 0>>

-----------------------------------------------------------------------------
(* The effective configuration and the parameters read from it. *)

\* line 64: cfg = self.test_cfg if cfg is None else cfg
EffCfg == IF cfg_given THEN cfg_arg ELSE test_cfg

\* line 75: pre_topk = cfg.get('nms_pre', -1)
PreTopk(cfg) == Get(cfg, "nms_pre", -1)

\* line 116: score_threshold = cfg.get('score_thr', post_params.score_threshold)
ScoreThreshold(cfg, post) == Get(cfg, "score_thr", post.score_threshold)

\* variant: the confidence threshold read under the score threshold's key
ConfidenceThresholdScoreKey(cfg, post) == Get(cfg, "score_thr", post.score_threshold)

\* lines 117-118: confidence_threshold = cfg.get('conf_thr', ...)
ConfidenceThreshold(cfg, post) == Get(cfg, "conf_thr", post.confidence_threshold)

-----------------------------------------------------------------------------
(* Shapes of the working tensors. *)

\* variant: the level check accepts surplus maps
LevelsMatchAtLeast(maps, n) == Len(maps) >= n

\* line 65: assert len(pred_maps_list) == self.num_levels
LevelsMatch(maps, n) == Len(maps) = n

BatchSize(maps) == Len(maps[1])                 \* line 68: pred_maps_list[0].shape[0]
NumAnchors(x) == Len(x[1])                      \* shape[1] of a [batch][anchor] tensor

-----------------------------------------------------------------------------
(* Lines 79-113: per-level results, merged along the anchor dimension.     *)

RECURSIVE Cat(_, _, _)
\* torch.cat(parts, dim=1) at batch item b, levels i..Len(parts)
Cat(parts, b, i) ==
    IF i > Len(parts) THEN << >> ELSE parts[i][b] \o Cat(parts, b, i + 1)

\* one field of every candidate of every level, concatenated per batch item
MergeLevels(maps, field) ==
    LET parts == [i \in 1..Len(maps) |->
                    [b \in 1..Len(maps[i]) |->
                       [a \in 1..Len(maps[i][b]) |-> maps[i][b][a][field]]]]
    IN  [b \in 1..BatchSize(maps) |-> Cat(parts, b, 1)]

-----------------------------------------------------------------------------
(* Lines 121-128: confidence masking.  x.where(mask, 0) keeps x where the  *)
(* mask is true and puts 0 elsewhere.                                       *)

\* variant: a candidate exactly at the threshold is masked too
ConfKeepStrict(conf, thr) == conf > thr

ConfKeep(conf, thr) == conf >= thr              \* line 122

ConfMaskConf(cf, thr) ==
    IF thr > 0
    THEN [b \in DOMAIN cf |-> [a \in DOMAIN cf[b] |->
            IF ConfKeep(cf[b][a], thr) THEN cf[b][a] ELSE 0]]
    ELSE cf

ConfMaskScores(sc, cf, thr) ==
    IF thr > 0
    THEN [b \in DOMAIN sc |-> [a \in DOMAIN sc[b] |->
            [c \in DOMAIN sc[b][a] |->
               IF ConfKeep(cf[b][a], thr) THEN sc[b][a][c] ELSE 0]]]
    ELSE sc

ConfMaskBoxes(bb, cf, thr) ==
    IF thr > 0
    THEN [b \in DOMAIN bb |-> [a \in DOMAIN bb[b] |->
            IF ConfKeep(cf[b][a], thr) THEN bb[b][a] ELSE ZeroBox]]
    ELSE bb

(* Lines 130-133: score masking. *)

\* variant: a score exactly at the threshold is kept
ScoreKeepInclusive(score, thr) == score >= thr

ScoreKeep(score, thr) == score > thr            \* line 131

ScoreMask(sc, thr) ==
    IF thr > 0
    THEN [b \in DOMAIN sc |-> [a \in DOMAIN sc[b] |->
            [c \in DOMAIN sc[b][a] |->
               IF ScoreKeep(sc[b][a][c], thr) THEN sc[b][a][c] ELSE 0]]]
    ELSE sc

-----------------------------------------------------------------------------
(* Lines 135-157: the top-k stage. *)

\* pad_with_value_if_necessary(x, 1, pad_size, value): the anchor dimension
\* is padded with `value` up to at least pad_size
PadWithValueIfNecessary(x, pad_size, value) ==
    [b \in DOMAIN x |->
       [a \in 1..Max(Len(x[b]), pad_size) |->
          IF a <= Len(x[b]) THEN x[b][a] ELSE value]]

\* batch_mlvl_scores.reshape(batch_size, -1)[b]: the scores of one batch item
\* in (anchor, class) row-major order; position f (0-based) is at f + 1
FlatScores(rows, C) ==
    [f \in 1..(Len(rows) * C) |-> rows[((f - 1) \div C) + 1][((f - 1) % C) + 1]]

RECURSIVE TopkFrom(_, _, _)
\* the 0-based positions of the k largest values, largest first; among equal
\* values the earlier position first
TopkFrom(vals, k, taken) ==
    IF k = 0 THEN << >>
    ELSE LET cand == (DOMAIN vals) \ taken
             best == CHOOSE i \in cand :
                        \A j \in cand : vals[i] > vals[j]
                                          \/ (vals[i] = vals[j] /\ i <= j)
         IN  <<best - 1>> \o TopkFrom(vals, k - 1, taken \cup {best})

\* lines 142-143: _, topk_inds = scores.reshape(batch_size, -1).topk(k, dim=1)
Topk(sc, C, k) == [b \in DOMAIN sc |-> TopkFrom(FlatScores(sc[b], C), k, {})]

\* lines 144-145: torch.stack([topk_inds // C, topk_inds % C]), shape (2, B, k)
StackInds(topk, C) ==
    << [b \in DOMAIN topk |-> [j \in DOMAIN topk[b] |-> topk[b][j] \div C]],
       [b \in DOMAIN topk |-> [j \in DOMAIN topk[b] |-> topk[b][j] % C]] >>

\* lines 146-150: shape[1] * batch_inds + topk_inds; batch_inds has shape
\* (B, 1) and broadcasts against (2, B, k) along the batch dimension
TransformedInds(stacked, A) ==
    [s \in DOMAIN stacked |->
       [b \in DOMAIN stacked[s] |->
          [j \in DOMAIN stacked[s][b] |-> A * (b - 1) + stacked[s][b][j]]]]

\* the elements of an index tensor of shape (S, B, k) in row-major order
RowMajor(t) ==
    LET S == Len(t)
        B == Len(t[1])
        k == Len(t[1][1])
    IN  [p \in 1..(S * B * k) |->
           t[((p - 1) \div (B * k)) + 1]
            [(((p - 1) % (B * k)) \div k) + 1]
            [((p - 1) % k) + 1]]

\* whether every index is a row of x.reshape(-1, ...)
IndsInRange(t, x) ==
    \A p \in DOMAIN RowMajor(t) :
       RowMajor(t)[p] >= 0 /\ RowMajor(t)[p] < Len(x) * NumAnchors(x)

\* row r (0-based) of x.reshape(-1, ...)
FlatRow(x, r) == x[(r \div NumAnchors(x)) + 1][(r % NumAnchors(x)) + 1]

\* lines 151-157: x.reshape(-1, ...)[transformed_inds].reshape(batch_size, -1, ...)
GatherRows(x, t) ==
    LET flat == RowMajor(t)
        B == Len(x)
        per == Len(flat) \div B
    IN  [b \in 1..B |-> [j \in 1..per |-> FlatRow(x, flat[(b - 1) * per + j])]]

\* line 160: batch_mlvl_scores * batch_mlvl_conf_scores.unsqueeze(2)
FuseScores(sc, cf) ==
    [b \in DOMAIN sc |-> [a \in DOMAIN sc[b] |->
       [c \in DOMAIN sc[b][a] |-> sc[b][a][c] * cf[b][a]]]]

-----------------------------------------------------------------------------
(* Lines 161-176: what multiclass_nms receives. *)

NmsMaxOutputBoxesPerClass(cfg, post) == post.max_output_boxes_per_class   \* line 162
NmsIouThreshold(cfg, post) == Get(cfg["nms"], "iou_threshold", post.iou_threshold)  \* line 163

\* variant: the per-call nms_pre overrides the deployment pre_top_k
NmsPreTopKFromCfg(cfg, post) == Get(cfg, "nms_pre", post.pre_top_k)

NmsPreTopK(cfg, post) == post.pre_top_k                                   \* line 164
NmsKeepTopK(cfg, post) == Get(cfg, "max_per_img", post.keep_top_k)        \* line 165

\* variant: the configured score threshold is handed on
NmsScoreThresholdConfigured == ScoreThreshold(EffCfg, post_params)

\* line 168: score_threshold = 0
NmsScoreThreshold == 0

-----------------------------------------------------------------------------
(* Lines 218-228 and 275-278: what Yolov3DetectionOutputOp.apply receives. *)

RECURSIVE Flatten(_)
\* np.array(x).reshape(-1).tolist() of a list of lists of numbers
Flatten(x) == IF x = << >> THEN << >> ELSE Head(x) \o Flatten(Tail(x))

\* variant: the levels are joined, the (w, h) pairs are not
AnchorBiasesPairs(sizes) == Flatten(sizes)

\* lines 225-226: the nested (level, box, (w, h)) base sizes as one flat list
AnchorBiases(sizes) == Flatten(Flatten(sizes))

\* line 227: num_box = len(self.prior_generator.base_sizes[0])
NumBox(sizes) == Len(sizes[1])

\* line 228: bias_masks = list(range(num_levels * num_box)), num_levels = len(pred_maps)
BiasMasks(maps, sizes) == [p \in 1..(Len(maps) * NumBox(sizes)) |-> p - 1]

\* line 224: iou_threshold = cfg.nms.get('iou_threshold', post_params.iou_threshold)
NcnnIouThreshold(cfg, post) == Get(cfg["nms"], "iou_threshold", post.iou_threshold)

-----------------------------------------------------------------------------
(* The inputs the model runs the two paths on. *)

\* candidates of level i (h * w * num_anchors of its feature map)
LevelAnchors(i) == i

\* candidates of the levels before level i
LevelOffset(i) == (i * (i - 1)) \div 2

\* The candidate of batch item b at merged anchor position g (both 1-based),
\* as sigmoid and bbox_coder.decode deliver it: a box that names (b, g), an
\* objectness that alternates between 1 and 2, and per-class scores of 1 with
\* a 2 at flat position `hot` of the (batch, anchor, class) scan (0: nowhere).
Candidate(b, g, A, C, hot) ==
    [box  |-> <<g, b, g + 1, b + 1>>,
     conf |-> 1 + ((b + g) % 2),
     cls  |-> [c \in 1..C |->
                 IF ((b - 1) * A + (g - 1)) * C + c = hot THEN 2 ELSE 1]]

BuildMaps(B, L, C, hot) ==
    [i \in 1..L |-> [b \in 1..B |-> [a \in 1..LevelAnchors(i) |->
        Candidate(b, LevelOffset(i) + a, LevelOffset(L + 1), C, hot)]]]

Strides(n) == [i \in 1..n |-> 8 * i]

ThrVals == {-1, 0, 1, 2}

DeployDefaults ==
    { [score_threshold |-> 0, confidence_threshold |-> 0, iou_threshold |-> 5,
       max_output_boxes_per_class |-> 20, pre_top_k |-> 30, keep_top_k |-> 10],
      [score_threshold |-> 2, confidence_threshold |-> 1, iou_threshold |-> 4,
       max_output_boxes_per_class |-> 21, pre_top_k |-> 31, keep_top_k |-> 12] }

DefaultPost == CHOOSE p \in DeployDefaults : p.score_threshold = 0

CfgKeys == {"nms_pre", "score_thr", "conf_thr", "max_per_img", "nms",
            "max_output_boxes_per_class"}

\* a per-call configuration carrying every key
FullCfg ==
    [k \in CfgKeys |->
       CASE k = "nms_pre"     -> 1
         [] k = "score_thr"   -> 1
         [] k = "conf_thr"    -> 2
         [] k = "max_per_img" -> 11
         [] k = "max_output_boxes_per_class" -> 22
         [] k = "nms"         -> [j \in {"iou_threshold"} |-> 6]]

\* the configurations obtained from FullCfg by omitting keys
CfgFamily ==
    { Restrict(FullCfg, keys) : keys \in SUBSET CfgKeys }
    \cup { [Restrict(FullCfg, keys) EXCEPT !["nms"] = EmptyDict] :
             keys \in { ks \in SUBSET CfgKeys : "nms" \in ks } }

BaseSizes(L, nb) == [l \in 1..L |-> [j \in 1..nb |-> <<10 * l + j, 10 * l + j + 5>>]]

NoBaseSizes == BaseSizes(1, 1)

-----------------------------------------------------------------------------
(* Initial states: a call is about to start. *)

Fresh ==
    /\ pc = "start"
    /\ pre_topk = -1
    /\ batch_mlvl_bboxes = << >>
    /\ batch_mlvl_scores = << >>
    /\ batch_mlvl_conf_scores = << >>
    /\ calls = << >>
    /\ nms_args = << >>
    /\ op_args = << >>
    /\ ret = << >>

\* generic path: the tensors, the two thresholds and nms_pre vary
InitTensors ==
    /\ backend = "default"
    /\ \E B \in 1..MaxBatch, L \in 1..MaxLevels, C \in 1..MaxClasses :
         /\ num_classes = C
         /\ num_levels = L
         /\ featmap_strides = Strides(L)
         /\ \E hot \in 0..(B * LevelOffset(L + 1) * C) :
              pred_maps = BuildMaps(B, L, C, hot)
    /\ base_sizes = NoBaseSizes
    /\ cfg_given = TRUE
    /\ \E ct \in ThrVals, st \in ThrVals, k \in -1..MaxTopk :
         LET c == [FullCfg EXCEPT !["conf_thr"] = ct, !["score_thr"] = st,
                                  !["nms_pre"] = k]
         IN  cfg_arg = IF k = -1 THEN Restrict(c, CfgKeys \ {"nms_pre"}) ELSE c
    /\ test_cfg = EmptyDict
    /\ post_params = DefaultPost
    /\ with_nms \in BOOLEAN
    /\ Fresh

\* generic path: the keys the configuration carries and the defaults vary
InitConfig ==
    /\ backend = "default"
    /\ num_classes = 1
    /\ num_levels = 1
    /\ featmap_strides = Strides(1)
    /\ pred_maps = BuildMaps(1, 1, 1, 0)
    /\ base_sizes = NoBaseSizes
    /\ cfg_given \in BOOLEAN
    /\ \E c \in CfgFamily :
         /\ cfg_arg = IF cfg_given THEN c ELSE EmptyDict
         /\ test_cfg = IF cfg_given THEN FullCfg ELSE c
    /\ post_params \in DeployDefaults
    /\ with_nms \in BOOLEAN
    /\ Fresh

\* generic path: the number of maps and the head's number of levels vary
InitLevels ==
    /\ backend = "default"
    /\ num_classes = 1
    /\ num_levels \in 1..(MaxLevels + 1)
    /\ featmap_strides = Strides(num_levels)
    /\ \E L \in 1..MaxLevels : pred_maps = BuildMaps(1, L, 1, 0)
    /\ base_sizes = NoBaseSizes
    /\ cfg_given = TRUE
    /\ cfg_arg = FullCfg
    /\ test_cfg = EmptyDict
    /\ post_params = DefaultPost
    /\ with_nms \in BOOLEAN
    /\ Fresh

\* fused path
InitNcnn ==
    /\ backend = "ncnn"
    /\ num_classes \in 1..MaxClasses
    /\ \E L \in 1..MaxLevels : pred_maps = BuildMaps(1, L, num_classes, 0)
    /\ num_levels \in 1..MaxLevels
    /\ featmap_strides = Strides(num_levels)
    /\ \E L \in 1..MaxLevels, nb \in 1..MaxBoxes : base_sizes = BaseSizes(L, nb)
    /\ cfg_given \in BOOLEAN
    /\ \E c \in { Restrict(d, DOMAIN d \ ks) :
                    d \in CfgFamily, ks \in {{}, {"conf_thr"}} } :
         /\ {"nms_pre", "score_thr", "max_per_img",
             "max_output_boxes_per_class"} \subseteq DOMAIN c
         /\ cfg_arg = IF cfg_given THEN c ELSE EmptyDict
         /\ test_cfg = IF cfg_given THEN FullCfg ELSE c
    /\ post_params \in DeployDefaults
    /\ with_nms = TRUE
    /\ Fresh

Init == InitTensors \/ InitConfig \/ InitLevels \/ InitNcnn

-----------------------------------------------------------------------------
(* The generic path, yolov3_head__predict_by_feat. *)

\* lines 51-113: level check, priors, per-level decode, merge
Enter ==
    /\ backend = "default"
    /\ pc = "start"
    /\ IF ~LevelsMatch(pred_maps, num_levels)
       THEN /\ pc' = "assert_failed"                                \* line 65
            /\ UNCHANGED <<pre_topk, batch_mlvl_bboxes, batch_mlvl_scores,
                           batch_mlvl_conf_scores, calls>>
       ELSE /\ calls' = <<"grid_anchors">>                          \* line 73
                          \o [i \in 1..num_levels |-> "bbox_coder.decode"]
            /\ pre_topk' = PreTopk(EffCfg)                          \* line 75
            /\ LET lvls == SubSeq(pred_maps, 1, num_levels)         \* line 79
               IN  /\ batch_mlvl_bboxes' = MergeLevels(lvls, "box")
                   /\ batch_mlvl_scores' = MergeLevels(lvls, "cls")
                   /\ batch_mlvl_conf_scores' = MergeLevels(lvls, "conf")
            /\ pc' = "merged"
    /\ UNCHANGED <<inputs, nms_args, op_args, ret>>

\* lines 115-128
ConfMaskStage ==
    /\ pc = "merged"
    /\ LET thr == ConfidenceThreshold(EffCfg, post_params)
       IN  /\ batch_mlvl_conf_scores' = ConfMaskConf(batch_mlvl_conf_scores, thr)
           /\ batch_mlvl_scores' =
                ConfMaskScores(batch_mlvl_scores, batch_mlvl_conf_scores, thr)
           /\ batch_mlvl_bboxes' =
                ConfMaskBoxes(batch_mlvl_bboxes, batch_mlvl_conf_scores, thr)
    /\ pc' = "conf_masked"
    /\ UNCHANGED <<inputs, pre_topk, calls, nms_args, op_args, ret>>

\* lines 130-133
ScoreMaskStage ==
    /\ pc = "conf_masked"
    /\ batch_mlvl_scores' =
         ScoreMask(batch_mlvl_scores, ScoreThreshold(EffCfg, post_params))
    /\ pc' = "score_masked"
    /\ UNCHANGED <<inputs, pre_topk, batch_mlvl_bboxes, batch_mlvl_conf_scores,
                   calls, nms_args, op_args, ret>>

\* lines 135-157
TopkStage ==
    /\ pc = "score_masked"
    /\ IF pre_topk > 0
       THEN LET bb == PadWithValueIfNecessary(batch_mlvl_bboxes, pre_topk, ZeroBox)
                cf == PadWithValueIfNecessary(batch_mlvl_conf_scores, pre_topk, 0)
                sc == PadWithValueIfNecessary(batch_mlvl_scores, pre_topk,
                                              [c \in 1..num_classes |-> 0])
                topk_inds == Topk(sc, num_classes, pre_topk)
                transformed_inds ==
                    TransformedInds(StackInds(topk_inds, num_classes), NumAnchors(bb))
            IN  IF IndsInRange(transformed_inds, bb)
                THEN /\ batch_mlvl_bboxes' = GatherRows(bb, transformed_inds)
                     /\ batch_mlvl_scores' = GatherRows(sc, transformed_inds)
                     /\ batch_mlvl_conf_scores' = GatherRows(cf, transformed_inds)
                     /\ pc' = "topk_done"
                ELSE /\ batch_mlvl_bboxes' = bb          \* IndexError, line 151
                     /\ batch_mlvl_scores' = sc
                     /\ batch_mlvl_conf_scores' = cf
                     /\ pc' = "index_error"
       ELSE /\ pc' = "topk_done"
            /\ UNCHANGED <<batch_mlvl_bboxes, batch_mlvl_scores,
                           batch_mlvl_conf_scores>>
    /\ UNCHANGED <<inputs, pre_topk, calls, nms_args, op_args, ret>>

\* lines 159-178
Finish ==
    /\ pc = "topk_done"
    /\ batch_mlvl_scores' = FuseScores(batch_mlvl_scores, batch_mlvl_conf_scores)
    /\ IF with_nms
       THEN IF "nms" \in DOMAIN EffCfg
            THEN /\ nms_args' =
                      << [bboxes |-> batch_mlvl_bboxes,
                          scores |-> batch_mlvl_scores',
                          max_output_boxes_per_class |->
                              NmsMaxOutputBoxesPerClass(EffCfg, post_params),
                          iou_threshold |-> NmsIouThreshold(EffCfg, post_params),
                          score_threshold |-> NmsScoreThreshold,
                          pre_top_k |-> NmsPreTopK(EffCfg, post_params),
                          keep_top_k |-> NmsKeepTopK(EffCfg, post_params)] >>
                 /\ calls' = Append(calls, "multiclass_nms")
                 /\ ret' = <<"dets", "labels">>
                 /\ pc' = "done"
            ELSE /\ pc' = "attribute_error"                \* cfg.nms, line 163
                 /\ UNCHANGED <<nms_args, calls, ret>>
       ELSE /\ ret' = <<batch_mlvl_bboxes, batch_mlvl_scores'>>      \* line 178
            /\ pc' = "done"
            /\ UNCHANGED <<nms_args, calls>>
    /\ UNCHANGED <<inputs, pre_topk, batch_mlvl_bboxes, batch_mlvl_conf_scores,
                   op_args>>

-----------------------------------------------------------------------------
(* The fused path, yolov3_head__predict_by_feat__ncnn. *)

\* lines 218-228, 275-280; forward (lines 252-256) returns a (100, 6) tensor
NcnnCall ==
    /\ backend = "ncnn"
    /\ pc = "start"
    /\ IF "nms" \in DOMAIN EffCfg
       THEN /\ op_args' =
                 << [inputs |-> Len(pred_maps),
                     num_class |-> num_classes,
                     num_box |-> NumBox(base_sizes),
                     confidence_threshold |->
                         ConfidenceThreshold(EffCfg, post_params),
                     nms_threshold |-> NcnnIouThreshold(EffCfg, post_params),
                     biases |-> AnchorBiases(base_sizes),
                     mask |-> BiasMasks(pred_maps, base_sizes),
                     anchors_scale |-> featmap_strides] >>
            /\ ret' = <<100, 6>>
            /\ pc' = "applied"
       ELSE /\ pc' = "attribute_error"                     \* cfg.nms, line 224
            /\ UNCHANGED <<op_args, ret>>
    /\ UNCHANGED <<inputs, pre_topk, batch_mlvl_bboxes, batch_mlvl_scores,
                   batch_mlvl_conf_scores, calls, nms_args>>

\* lines 259-273: symbolic, run when the recorded call is exported; args are
\* the maps followed by the 7 parameters, and inputs = args[:len(anchors_scale)]
Symbolic ==
    /\ pc = "applied"
    /\ pc' = IF op_args[1].inputs + 7 = Len(op_args[1].anchors_scale) + 7
             THEN "exported" ELSE "assert_failed"             \* line 262
    /\ UNCHANGED <<inputs, pre_topk, batch_mlvl_bboxes, batch_mlvl_scores,
                   batch_mlvl_conf_scores, calls, nms_args, op_args, ret>>

Next ==
    \/ Enter
    \/ ConfMaskStage
    \/ ScoreMaskStage
    \/ TopkStage
    \/ Finish
    \/ NcnnCall
    \/ Symbolic

Spec == Init /\ [][Next]_vars

-----------------------------------------------------------------------------
(* Properties. *)

\* the thresholds the configuration asks for: the per-call value when the
\* key is carried, the deployment default otherwise
ConfiguredConfThr ==
    IF "conf_thr" \in DOMAIN EffCfg THEN EffCfg["conf_thr"]
    ELSE post_params.confidence_threshold

ConfiguredScoreThr ==
    IF "score_thr" \in DOMAIN EffCfg THEN EffCfg["score_thr"]
    ELSE post_params.score_threshold

Batches == DOMAIN batch_mlvl_bboxes
Anchors(b) == DOMAIN batch_mlvl_bboxes[b]
Classes == 1..num_classes

ConfStep == pc = "merged" /\ pc' = "conf_masked"
ScoreStep == pc = "conf_masked" /\ pc' = "score_masked"
TopkStep == pc = "score_masked" /\ pc' = "topk_done" /\ pre_topk > 0
FinishStep == pc = "topk_done" /\ pc' = "done"

SameShape ==
    /\ DOMAIN batch_mlvl_bboxes' = Batches
    /\ DOMAIN batch_mlvl_scores' = Batches
    /\ DOMAIN batch_mlvl_conf_scores' = Batches
    /\ \A b \in Batches :
         /\ DOMAIN batch_mlvl_bboxes'[b] = Anchors(b)
         /\ DOMAIN batch_mlvl_scores'[b] = Anchors(b)
         /\ DOMAIN batch_mlvl_conf_scores'[b] = Anchors(b)

\* the inputs of the gather: the padded tensors and the top-k flat indices
PaddedBoxes == PadWithValueIfNecessary(batch_mlvl_bboxes, pre_topk, ZeroBox)
PaddedConf == PadWithValueIfNecessary(batch_mlvl_conf_scores, pre_topk, 0)
PaddedScores ==
    PadWithValueIfNecessary(batch_mlvl_scores, pre_topk, [c \in Classes |-> 0])
TopkInds == Topk(PaddedScores, num_classes, pre_topk)

(* C1: in the top-k stage, output position (b, j) holds the box, the score  *)
(* row and the objectness of anchor (flat_index // num_classes) of the same *)
(* batch item b, flat_index being b's j-th top-k index.                     *)
C1_GatherSameBatchItem ==
    [][TopkStep =>
         \A b \in Batches : \A j \in 1..pre_topk :
            LET anchor == TopkInds[b][j] \div num_classes
            IN  /\ j \in DOMAIN batch_mlvl_bboxes'[b]
                /\ batch_mlvl_bboxes'[b][j] = PaddedBoxes[b][anchor + 1]
                /\ batch_mlvl_scores'[b][j] = PaddedScores[b][anchor + 1]
                /\ batch_mlvl_conf_scores'[b][j] = PaddedConf[b][anchor + 1]]_vars

(* C2: after the top-k stage with pre-NMS top-k = k > 0, the anchor         *)
(* dimension of boxes, scores and objectness has length k for every batch   *)
(* item.                                                                    *)
C2_TopkKeepsK ==
    (pc = "topk_done" /\ pre_topk > 0) =>
        \A b \in Batches :
           /\ Len(batch_mlvl_bboxes[b]) = pre_topk
           /\ Len(batch_mlvl_scores[b]) = pre_topk
           /\ Len(batch_mlvl_conf_scores[b]) = pre_topk

(* C9: with pre-NMS top-k > 0, every index used to gather rows from the     *)
(* flattened (batch x anchor) tensors lies in                               *)
(* [0, batch_size x padded_anchor_count).                                   *)
C9_GatherIndicesInRange ==
    (pc = "score_masked" /\ pre_topk > 0) =>
        LET t == TransformedInds(StackInds(TopkInds, num_classes),
                                 NumAnchors(PaddedBoxes))
        IN  \A s \in DOMAIN t : \A b \in DOMAIN t[s] : \A j \in DOMAIN t[s][b] :
               /\ 0 <= t[s][b][j]
               /\ t[s][b][j] < Len(PaddedBoxes) * NumAnchors(PaddedBoxes)

(* C3: with a confidence threshold > 0, confidence masking zeroes the       *)
(* objectness, every class score and the four box coordinates of each       *)
(* candidate whose objectness is below the threshold, leaves the others     *)
(* unchanged and keeps the number of candidates.                            *)
C3_ConfMaskZeroesBelow ==
    [][(ConfStep /\ ConfiguredConfThr > 0) =>
         /\ SameShape
         /\ \A b \in Batches : \A a \in Anchors(b) :
              IF batch_mlvl_conf_scores[b][a] < ConfiguredConfThr
              THEN /\ batch_mlvl_conf_scores'[b][a] = 0
                   /\ \A c \in Classes : batch_mlvl_scores'[b][a][c] = 0
                   /\ \A i \in 1..4 : batch_mlvl_bboxes'[b][a][i] = 0
              ELSE /\ batch_mlvl_conf_scores'[b][a] = batch_mlvl_conf_scores[b][a]
                   /\ batch_mlvl_scores'[b][a] = batch_mlvl_scores[b][a]
                   /\ batch_mlvl_bboxes'[b][a] = batch_mlvl_bboxes[b][a]]_vars

\* a confidence-masked state with a zeroed candidate and a kept one
C3_Witness ==
    /\ pc = "conf_masked"
    /\ ConfiguredConfThr > 0
    /\ \E b \in Batches : \E a \in Anchors(b) :
         /\ batch_mlvl_conf_scores[b][a] = 0
         /\ batch_mlvl_bboxes[b][a] = ZeroBox
    /\ \E b \in Batches : \E a \in Anchors(b) :
         /\ batch_mlvl_conf_scores[b][a] >= ConfiguredConfThr
         /\ batch_mlvl_bboxes[b][a] # ZeroBox

(* C4: with a score threshold > 0, score masking zeroes every class score   *)
(* at or below the threshold, keeps every score strictly above it, and      *)
(* changes neither boxes, objectness nor the number of candidates.          *)
C4_ScoreMaskZeroesAtOrBelow ==
    [][(ScoreStep /\ ConfiguredScoreThr > 0) =>
         /\ SameShape
         /\ batch_mlvl_bboxes' = batch_mlvl_bboxes
         /\ batch_mlvl_conf_scores' = batch_mlvl_conf_scores
         /\ \A b \in Batches : \A a \in Anchors(b) :
              /\ DOMAIN batch_mlvl_scores'[b][a] = Classes
              /\ \A c \in Classes :
                   batch_mlvl_scores'[b][a][c] =
                      IF batch_mlvl_scores[b][a][c] <= ConfiguredScoreThr
                      THEN 0 ELSE batch_mlvl_scores[b][a][c]]_vars

\* a score-masked state where a score of a candidate that passed confidence
\* masking was zeroed and another score was kept
C4_Witness ==
    /\ pc = "score_masked"
    /\ ConfiguredScoreThr > 0
    /\ \E b \in Batches : \E a \in Anchors(b) : \E c \in Classes :
         /\ batch_mlvl_conf_scores[b][a] > 0
         /\ batch_mlvl_scores[b][a][c] = 0
    /\ \E b \in Batches : \E a \in Anchors(b) : \E c \in Classes :
         batch_mlvl_scores[b][a][c] > ConfiguredScoreThr

(* C5: a confidence threshold <= 0 makes confidence masking the identity on *)
(* objectness, scores and boxes; a score threshold <= 0 makes score masking *)
(* the identity on scores.                                                  *)
C5_NonPositiveThresholdsNoOp ==
    [][/\ (ConfStep /\ ConfiguredConfThr <= 0) =>
             /\ batch_mlvl_conf_scores' = batch_mlvl_conf_scores
             /\ batch_mlvl_scores' = batch_mlvl_scores
             /\ batch_mlvl_bboxes' = batch_mlvl_bboxes
       /\ (ScoreStep /\ ConfiguredScoreThr <= 0) =>
             batch_mlvl_scores' = batch_mlvl_scores]_vars

\* both stages have run with thresholds of exactly 0 over candidates that a
\* positive threshold would have masked
C5_Witness ==
    /\ pc = "score_masked"
    /\ ConfiguredConfThr = 0
    /\ ConfiguredScoreThr = 0
    /\ \E b \in Batches : \E a \in Anchors(b) : batch_mlvl_conf_scores[b][a] = 1
    /\ \E b \in Batches : \E a \in Anchors(b) : \E c \in Classes :
         batch_mlvl_scores[b][a][c] = 1

\* the per-call value when the configuration carries the key, the
\* deployment default when it omits it
PerCallOrDefault(d, key, default) == IF key \in DOMAIN d THEN d[key] ELSE default

(* C6 (as claimed): each of the four parameters handed to multiclass_nms    *)
(* (max boxes per class, IoU threshold, pre-top-k, keep-top-k) is the       *)
(* per-call configuration's value when it carries the key and the           *)
(* deployment default only when it omits it.                                *)
C6_NmsParamsPerCallFirst ==
    nms_args # << >> =>
        LET a == nms_args[1]
        IN  /\ a.max_output_boxes_per_class =
                 PerCallOrDefault(EffCfg, "max_output_boxes_per_class",
                                  post_params.max_output_boxes_per_class)
            /\ a.iou_threshold =
                 PerCallOrDefault(EffCfg["nms"], "iou_threshold",
                                  post_params.iou_threshold)
            /\ a.pre_top_k =
                 PerCallOrDefault(EffCfg, "nms_pre", post_params.pre_top_k)
            /\ a.keep_top_k =
                 PerCallOrDefault(EffCfg, "max_per_img", post_params.keep_top_k)

(* C6 (amended): the IoU threshold and keep-top-k handed to multiclass_nms  *)
(* are the per-call values when the configuration carries them and the      *)
(* deployment defaults otherwise; max boxes per class and pre-top-k are     *)
(* always the deployment values, whatever the per-call configuration holds. *)
C6_NmsParamsAmended ==
    nms_args # << >> =>
        LET a == nms_args[1]
        IN  /\ a.max_output_boxes_per_class = post_params.max_output_boxes_per_class
            /\ a.iou_threshold =
                 PerCallOrDefault(EffCfg["nms"], "iou_threshold",
                                  post_params.iou_threshold)
            /\ a.pre_top_k = post_params.pre_top_k
            /\ a.keep_top_k =
                 PerCallOrDefault(EffCfg, "max_per_img", post_params.keep_top_k)

\* multiclass_nms was called under a configuration that carries nms_pre,
\* max_per_img and a max-boxes key but no IoU threshold
C6_Witness ==
    /\ nms_args # << >>
    /\ {"nms_pre", "max_per_img", "max_output_boxes_per_class"}
          \subseteq DOMAIN EffCfg
    /\ "iou_threshold" \notin DOMAIN EffCfg["nms"]
    /\ nms_args[1].keep_top_k = EffCfg["max_per_img"]
    /\ nms_args[1].iou_threshold = post_params.iou_threshold

(* C7 (as claimed): in the fused path the flattened anchor biases have      *)
(* length levels x boxes-per-level x 2 and the mask is 0, 1, ...,           *)
(* levels x boxes-per-level - 1, levels being the number of prediction maps.*)
C7_FusedMarshalling ==
    op_args # << >> =>
        LET a == op_args[1]
            n == Len(pred_maps) * Len(base_sizes[1])
        IN  /\ Len(a.biases) = n * 2
            /\ Len(a.mask) = n
            /\ \A p \in 1..n : a.mask[p] = p - 1

(* C7 (amended): the flattened anchor biases have length                    *)
(* (base-size levels) x boxes-per-level x 2, which is                       *)
(* levels x boxes-per-level x 2 exactly when the number of prediction maps  *)
(* equals the number of base-size levels; the mask is 0, 1, ...,            *)
(* levels x boxes-per-level - 1, levels being the number of prediction maps.*)
C7_FusedMarshallingAmended ==
    op_args # << >> =>
        LET a == op_args[1]
            n == Len(pred_maps) * Len(base_sizes[1])
        IN  /\ Len(a.biases) = Len(base_sizes) * Len(base_sizes[1]) * 2
            /\ (Len(a.biases) = n * 2) <=> (Len(pred_maps) = Len(base_sizes))
            /\ Len(a.mask) = n
            /\ \A p \in 1..n : a.mask[p] = p - 1

\* the operator was applied with fewer maps than base-size levels and more
\* than one box per level
C7_Witness ==
    /\ op_args # << >>
    /\ Len(pred_maps) < Len(base_sizes)
    /\ Len(base_sizes[1]) > 1
    /\ Len(op_args[1].mask) > 1

(* C8: in the generic path, when the number of prediction maps differs from *)
(* the head's number of levels the call ends in an assertion failure,       *)
(* returns nothing, and neither the prior generator, the box coder nor      *)
(* multiclass_nms has been invoked.                                         *)
C8_LevelMismatchAsserts ==
    (backend = "default" /\ Len(pred_maps) # num_levels /\ pc # "start") =>
        /\ pc = "assert_failed"
        /\ ret = << >>
        /\ calls = << >>
        /\ nms_args = << >>

\* the generic path has stopped on more maps than levels
C8_Witness ==
    /\ backend = "default"
    /\ pc = "assert_failed"
    /\ Len(pred_maps) > num_levels

(* C10: when NMS is requested, multiclass_nms receives a score threshold of *)
(* 0 whatever is configured, while score masking has used the configured    *)
(* threshold; when NMS is not requested, multiclass_nms is never invoked    *)
(* and the call returns the boxes with the fused scores (class score x      *)
(* objectness).                                                             *)
C10_NmsScoreThresholdZero ==
    [][/\ (ScoreStep /\ with_nms) =>
             \A b \in Batches : \A a \in Anchors(b) : \A c \in Classes :
                batch_mlvl_scores'[b][a][c] =
                   IF ConfiguredScoreThr > 0
                      /\ batch_mlvl_scores[b][a][c] <= ConfiguredScoreThr
                   THEN 0 ELSE batch_mlvl_scores[b][a][c]
       /\ (FinishStep /\ with_nms) =>
             /\ Len(nms_args') = 1
             /\ nms_args'[1].score_threshold = 0
       /\ (backend = "default" /\ ~with_nms) =>
             /\ nms_args' = << >>
             /\ \A i \in DOMAIN calls' : calls'[i] # "multiclass_nms"
       /\ (FinishStep /\ ~with_nms) =>
             /\ Len(ret') = 2
             /\ ret'[1] = batch_mlvl_bboxes
             /\ DOMAIN ret'[2] = Batches
             /\ \A b \in Batches :
                  /\ DOMAIN ret'[2][b] = Anchors(b)
                  /\ \A a \in Anchors(b) : \A c \in Classes :
                       ret'[2][b][a][c] =
                          batch_mlvl_scores[b][a][c] * batch_mlvl_conf_scores[b][a]]_vars

\* multiclass_nms was called with threshold 0 although a positive score
\* threshold is configured and has masked a score
C10_Witness ==
    /\ pc = "done"
    /\ with_nms
    /\ ConfiguredScoreThr > 0
    /\ nms_args # << >>
    /\ nms_args[1].score_threshold = 0
    /\ \E b \in DOMAIN nms_args[1].scores : \E a \in DOMAIN nms_args[1].scores[b] :
         /\ batch_mlvl_conf_scores[b][a] > 0
         /\ \E c \in Classes : nms_args[1].scores[b][a][c] = 0

=============================================================================
